---- MODULE Spec2Model ----
(***************************************************************************)
(* Model of employment_establishment_data_collection.py: the year-range    *)
(* selection, the per-year fetch loop with its try/except, safe_int, the   *)
(* island aggregation, the pivot to wide form, the derived change columns  *)
(* and the JSON output with its trailing metadata record.                  *)
(*                                                                         *)
(* Python values are records:  strings are sequences of pieces (the NAME   *)
(* field a sequence of name segments, the ESTAB field a sequence of        *)
(* characters), numbers are exact rationals n/d, and None, NaN and the     *)
(* infinities are separate kinds.                                          *)
(***************************************************************************)
EXTENDS Integers, Sequences, FiniteSets, TLC

VARIABLES
    current_year,      \* date.today().year
    years,             \* the computed range, a sequence
    pc,                \* position of the script
    i,                 \* 1-based position in years of the year being fetched
    idx,               \* column-index map of the response being processed
    records,           \* list of {year, Municipio, Establishments}
    successful_years,  \* list of years
    requested,         \* history: the years requested, in order
    last,              \* history: how the request just handled ended
    df,                \* long-form frame after dropna and island concat
    pivot,             \* wide frame: sequence of rows in index order
    out,               \* the array handed to json.dump (records after line 143)
    file,              \* the output files written, a sequence (empty: none)
    val,               \* SpecSafeInt: the argument
    ret                \* SpecSafeInt: the returned value

vars == <<current_year, years, pc, i, idx, records, successful_years,
          requested, last, df, pivot, out, file, val, ret>>

-----------------------------------------------------------------------------
(* Bounds *)
MaxCurrentYear == 2014   \* latest start date: ranges of up to 3 years
MaxRecords == 3          \* records appended over one run
MaxLen == 3              \* length of a safe_int string argument

(* Program constants *)
START_YEAR == 2010

-----------------------------------------------------------------------------
(* Values *)
None == [kind |-> "None", n |-> 0, d |-> 1]
NaN == [kind |-> "nan", n |-> 0, d |-> 1]
Inf(s) == [kind |-> "inf", n |-> s, d |-> 0]

Abs(x) == IF x < 0 THEN -x ELSE x

RECURSIVE Gcd(_, _)
Gcd(a, b) == IF b = 0 THEN a ELSE Gcd(b, a % b)

\* the rational n/d (d > 0) in lowest terms
Num(n, d) ==
    LET g == Gcd(Abs(n), d)
    IN  [kind |-> "num", n |-> n \div g, d |-> d \div g]

PyInt(n) == Num(n, 1)

PyStr(s) == [t |-> "str", s |-> s]
PyNone == [t |-> "NoneType", s |-> <<>>]
PyList == [t |-> "list", s |-> <<>>]

-----------------------------------------------------------------------------
(* safe_int, lines 22-29 *)

Digits == {"0", "1", "2", "3", "4", "5", "6", "7", "8", "9"}

DigitVal(c) ==
    CASE c = "0" -> 0 [] c = "1" -> 1 [] c = "2" -> 2 [] c = "3" -> 3
      [] c = "4" -> 4 [] c = "5" -> 5 [] c = "6" -> 6 [] c = "7" -> 7
      [] c = "8" -> 8 [] c = "9" -> 9

\* str.strip() as int() applies it: leading and trailing blanks are dropped
RECURSIVE LStrip(_)
LStrip(s) == IF s # <<>> /\ Head(s) = " " THEN LStrip(Tail(s)) ELSE s

RECURSIVE RStrip(_)
RStrip(s) ==
    IF s # <<>> /\ s[Len(s)] = " " THEN RStrip(SubSeq(s, 1, Len(s) - 1)) ELSE s

Strip(s) == RStrip(LStrip(s))

HasSign(s) == s # <<>> /\ Head(s) \in {"-", "+"}

Unsigned(s) == IF HasSign(s) THEN Tail(s) ELSE s

\* the digit part of a decimal literal: digits, single underscores between them
IsDigitPart(b) ==
    /\ b # <<>>
    /\ \A j \in 1..Len(b) : b[j] \in Digits \cup {"_"}
    /\ b[1] \in Digits
    /\ b[Len(b)] \in Digits
    /\ \A j \in 1..(Len(b) - 1) : ~(b[j] = "_" /\ b[j + 1] = "_")

RECURSIVE DigitPartValue(_, _)
DigitPartValue(b, acc) ==
    IF b = <<>> THEN acc
    ELSE IF Head(b) = "_" THEN DigitPartValue(Tail(b), acc)
    ELSE DigitPartValue(Tail(b), 10 * acc + DigitVal(Head(b)))

\* int(v) raises unless v is a string holding a decimal integer literal
IntRaises(v) == v.t # "str" \/ ~IsDigitPart(Unsigned(Strip(v.s)))

IntOf(v) ==
    LET s == Strip(v.s)
        m == DigitPartValue(Unsigned(s), 0)
    IN  IF HasSign(s) /\ Head(s) = "-" THEN -m ELSE m

safe_int_NoLiteralCase(v) ==
    IF IntRaises(v) THEN None ELSE PyInt(IntOf(v))

safe_int(v) ==
    IF v \in {PyStr(<<"N">>), PyStr(<<"0">>)} THEN PyInt(0)
    ELSE IF IntRaises(v) THEN None
    ELSE PyInt(IntOf(v))

-----------------------------------------------------------------------------
(* Year strings and names *)

RECURSIVE str(_)
\* str(y) for y >= 0: the sequence of decimal digits
str(y) == IF y < 10 THEN <<y>> ELSE Append(str(y \div 10), y % 10)

SUFFIX == " Municipio, Puerto Rico"

\* name.replace(" Municipio, Puerto Rico", ""): every occurrence is removed
StripSuffix(s) == SelectSeq(s, LAMBDA piece : piece # SUFFIX)

PuertoRico == <<"Puerto Rico">>

\* Python's string order on the names the model uses
NameOrder == <<"Adjuntas", "Ponce", "Puerto Rico">>

NameRank(m) == CHOOSE r \in 1..Len(NameOrder) : NameOrder[r] = m[1]

Range(s) == {s[j] : j \in 1..Len(s)}

-----------------------------------------------------------------------------
(* The responses the API may give *)

RawNames == {<<"Adjuntas", SUFFIX>>, <<"Ponce", SUFFIX>>, <<"Puerto Rico">>}

Tokens == {<<"N">>, <<"1", "0", "0">>, <<"a", "b", "c">>}

Headers == {<<"NAME", "ESTAB">>, <<"ESTAB">>}

NameCells == {PyStr(n) : n \in RawNames} \cup {PyNone}

EstabCells == {PyStr(t) : t \in Tokens}

\* rows of two cells (NAME, ESTAB) and rows cut short after the first cell
Rows ==
    {<<n, e>> : n \in NameCells, e \in EstabCells} \cup {<<n>> : n \in NameCells}

-----------------------------------------------------------------------------
(* 1. Year range, lines 43-48 *)

YearRange(cy) ==
    LET latest_data_year == cy - 2
    IN  [j \in 1..(IF latest_data_year + 1 > START_YEAR
                   THEN latest_data_year + 1 - START_YEAR ELSE 0)
           |-> START_YEAR + j - 1]

DetermineYears ==
    /\ pc = "start"
    /\ years' = YearRange(current_year)
    /\ pc' = IF Len(years') < 2 THEN "RuntimeError" ELSE "fetch"
    /\ UNCHANGED <<current_year, i, idx, records, successful_years,
                   requested, last, df, pivot, out, file, val, ret>>

-----------------------------------------------------------------------------
(* 2. Fetch loop, lines 58-87 *)

InLoop == pc = "fetch" /\ i <= Len(years)

\* line 67: requests.get raises (connection error, timeout); lines 85-87
FetchTransportError ==
    /\ InLoop
    /\ requested' = Append(requested, years[i])
    /\ last' = "transport"
    /\ i' = i + 1
    /\ UNCHANGED <<current_year, years, pc, idx, records, successful_years,
                   df, pivot, out, file, val, ret>>

\* lines 68-70: r.status_code != 200
FetchNon200 ==
    /\ InLoop
    /\ requested' = Append(requested, years[i])
    /\ last' = "non200"
    /\ i' = i + 1
    /\ UNCHANGED <<current_year, years, pc, idx, records, successful_years,
                   df, pivot, out, file, val, ret>>

FetchJsonError_YearCounted ==
    /\ InLoop
    /\ requested' = Append(requested, years[i])
    /\ successful_years' = Append(successful_years, years[i])
    /\ last' = "json"
    /\ i' = i + 1
    /\ UNCHANGED <<current_year, years, pc, idx, records,
                   df, pivot, out, file, val, ret>>

\* line 71: r.json() raises; lines 85-87
FetchJsonError ==
    /\ InLoop
    /\ requested' = Append(requested, years[i])
    /\ last' = "json"
    /\ i' = i + 1
    /\ UNCHANGED <<current_year, years, pc, idx, records, successful_years,
                   df, pivot, out, file, val, ret>>

\* line 72: header, *rows = data raises (an empty array); lines 85-87
FetchUnpackError ==
    /\ InLoop
    /\ requested' = Append(requested, years[i])
    /\ last' = "unpack"
    /\ i' = i + 1
    /\ UNCHANGED <<current_year, years, pc, idx, records, successful_years,
                   df, pivot, out, file, val, ret>>

\* line 74: if not rows: continue
FetchNoRows ==
    /\ InLoop
    /\ requested' = Append(requested, years[i])
    /\ last' = "norows"
    /\ i' = i + 1
    /\ UNCHANGED <<current_year, years, pc, idx, records, successful_years,
                   df, pivot, out, file, val, ret>>

\* lines 72-75: the body holds a header and at least one row
FetchRows ==
    /\ InLoop
    /\ \E header \in Headers :
          idx' = [c \in Range(header) |->
                     (CHOOSE j \in 1..Len(header) : header[j] = c) - 1]
    /\ requested' = Append(requested, years[i])
    /\ successful_years' = Append(successful_years, years[i])
    /\ pc' = "first_row"
    /\ last' = "pending"
    /\ UNCHANGED <<current_year, years, i, records, df, pivot, out,
                   file, val, ret>>

\* row[idx["NAME"]].replace(...) raises: no NAME column, a short row, or a
\* name that is no string
NameRaises(row) ==
    \/ "NAME" \notin DOMAIN idx
    \/ idx["NAME"] + 1 > Len(row)
    \/ row[idx["NAME"] + 1].t # "str"

\* row[idx["ESTAB"]] raises: no ESTAB column or a short row
EstabRaises(row) ==
    \/ "ESTAB" \notin DOMAIN idx
    \/ idx["ESTAB"] + 1 > Len(row)

municipio(row) == StripSuffix(row[idx["NAME"] + 1].s)

\* line 78: municipio == "Puerto Rico"
IsTerritoryRow(m) == m = PuertoRico

RowRaises(row) ==
    \/ NameRaises(row)
    \/ ~IsTerritoryRow(municipio(row)) /\ EstabRaises(row)

RowAppends(row) == ~NameRaises(row) /\ ~IsTerritoryRow(municipio(row)) /\ ~EstabRaises(row)

\* lines 85-87: the except clause prints and continues; what was appended stays
ExceptClause ==
    /\ UNCHANGED <<records, successful_years>>

\* lines 76-84, one iteration of `for row in rows`; the rows of the body
\* are drawn one at a time, the first one at pc = "first_row"
ProcessRow ==
    /\ pc \in {"first_row", "next_row"}
    /\ \E row \in Rows :
          /\ RowAppends(row) => Len(records) < MaxRecords
          /\ IF RowRaises(row)
             THEN /\ ExceptClause
                  /\ last' = "raised"
                  /\ i' = i + 1
                  /\ pc' = "fetch"
                  /\ idx' = <<>>
             ELSE /\ records' =
                        IF IsTerritoryRow(municipio(row)) THEN records
                        ELSE Append(records,
                                    [year |-> years[i],
                                     Municipio |-> municipio(row),
                                     Establishments |->
                                         safe_int(row[idx["ESTAB"] + 1])])
                  /\ pc' = "next_row"
                  /\ UNCHANGED <<successful_years, last, i, idx>>
    /\ UNCHANGED <<current_year, years, requested, df, pivot, out, file, val, ret>>

\* the rows are exhausted: the next year
EndRows ==
    /\ pc = "next_row"
    /\ last' = "ok"
    /\ i' = i + 1
    /\ pc' = "fetch"
    /\ idx' = <<>>
    /\ UNCHANGED <<current_year, years, records, successful_years, requested,
                   df, pivot, out, file, val, ret>>

TooFewSuccessful_One == Len(successful_years) < 1

\* line 89: len(successful_years) < 2
TooFewSuccessful == Len(successful_years) < 2

\* lines 89-91
CheckSuccessful ==
    /\ pc = "fetch"
    /\ i > Len(years)
    /\ pc' = IF TooFewSuccessful THEN "exit0" ELSE "build"
    /\ last' = "none"
    /\ UNCHANGED <<current_year, years, i, idx, records, successful_years,
                   requested, df, pivot, out, file, val, ret>>

-----------------------------------------------------------------------------
(* 3. Dataframe and island total, lines 96-105 *)

\* sort_values(["Municipio", "year"])
RowBefore(a, b) ==
    \/ NameRank(a.Municipio) < NameRank(b.Municipio)
    \/ NameRank(a.Municipio) = NameRank(b.Municipio) /\ a.year < b.year

\* dropna(subset=["Establishments"])
DropNa(d) == SelectSeq(d, LAMBDA r : r.Establishments # None)

RECURSIVE SumEstablishments(_)
SumEstablishments(d) ==
    IF d = <<>> THEN 0
    ELSE Head(d).Establishments.n + SumEstablishments(Tail(d))

IslandSum_AllYears(d, y) == SumEstablishments(d)

\* groupby("year")["Establishments"].sum(), the group of year y
IslandSum(d, y) == SumEstablishments(SelectSeq(d, LAMBDA r : r.year = y))

RECURSIVE Ascending(_)
\* the members of a finite set of integers in increasing order
Ascending(S) ==
    IF S = {} THEN <<>>
    ELSE LET m == CHOOSE x \in S : \A z \in S : x <= z
         IN  <<m>> \o Ascending(S \ {m})

Island(d) ==
    LET ys == Ascending({r.year : r \in Range(d)})
    IN  [j \in 1..Len(ys) |->
            [year |-> ys[j],
             Municipio |-> PuertoRico,
             Establishments |-> PyInt(IslandSum(d, ys[j]))]]

BuildDataframe ==
    /\ pc = "build"
    /\ IF records = <<>>
       THEN \* a frame without columns: sort_values raises KeyError
            /\ pc' = "uncaught"
            /\ UNCHANGED df
       ELSE /\ LET d == DropNa(SortSeq(records, RowBefore))
               IN  df' = d \o Island(d)
            /\ pc' = "pivot"
    /\ UNCHANGED <<current_year, years, i, idx, records, successful_years,
                   requested, last, pivot, out, file, val, ret>>

-----------------------------------------------------------------------------
(* 4. Pivot, lines 111-116 *)

\* df.pivot raises ValueError when an (index, column) pair occurs twice
HasDuplicates(d) ==
    \E a, b \in 1..Len(d) :
        a # b /\ d[a].Municipio = d[b].Municipio /\ d[a].year = d[b].year

\* rename(columns={y: str(y) for y in successful_years})
ColumnKey(y) == IF y \in Range(successful_years) THEN str(y) ELSE y

Cell(d, m, y) ==
    IF \E r \in Range(d) : r.Municipio = m /\ r.year = y
    THEN (CHOOSE r \in Range(d) : r.Municipio = m /\ r.year = y).Establishments
    ELSE NaN

RECURSIVE IndexOrder(_)
\* the index of the pivot: the distinct names in string order
IndexOrder(S) ==
    IF S = {} THEN <<>>
    ELSE LET m == CHOOSE x \in S : \A z \in S : NameRank(x) <= NameRank(z)
         IN  <<m>> \o IndexOrder(S \ {m})

Pivot(d) ==
    LET index == IndexOrder({r.Municipio : r \in Range(d)})
        cols == {r.year : r \in Range(d)}
        keys == {ColumnKey(y) : y \in cols}
    IN  [columns |-> keys,
         rows |-> [j \in 1..Len(index) |->
                     [Municipio |-> index[j],
                      year |-> [c \in keys |->
                                  Cell(d, index[j],
                                       CHOOSE y \in cols : ColumnKey(y) = c)],
                      derived |-> <<>>,
                      real |-> <<>>]]]

PivotStep ==
    /\ pc = "pivot"
    /\ IF HasDuplicates(df)
       THEN /\ pc' = "uncaught"
            /\ UNCHANGED pivot
       ELSE /\ pivot' = Pivot(df)
            /\ pc' = "metrics"
    /\ UNCHANGED <<current_year, years, i, idx, records, successful_years,
                   requested, last, df, out, file, val, ret>>

-----------------------------------------------------------------------------
(* 5. Change metrics and placeholders, lines 118-138 *)

\* a - b on float columns
Sub(a, b) ==
    IF a.kind # "num" \/ b.kind # "num" THEN NaN
    ELSE Num(a.n * b.d - b.n * a.d, a.d * b.d)

\* a / b on float columns: x/0 is +-inf and 0/0 is NaN, nothing raises
Div(a, b) ==
    IF a.kind # "num" \/ b.kind # "num" THEN NaN
    ELSE IF b.n = 0
         THEN (IF a.n = 0 THEN NaN ELSE IF a.n > 0 THEN Inf(1) ELSE Inf(-1))
    ELSE IF b.n > 0 THEN Num(a.n * b.d, a.d * b.n)
    ELSE Num(-(a.n * b.d), a.d * (-b.n))

\* a * 100
Times100(a) == IF a.kind = "num" THEN Num(100 * a.n, a.d) ELSE a

first_year == successful_years[1]

prev_year_IsLast == successful_years[Len(successful_years)]

\* successful_years[-2]
prev_year == successful_years[Len(successful_years) - 1]

last_year == successful_years[Len(successful_years)]

ColName(col, a, b) == [col |-> col, a |-> a, b |-> b]

DerivedKeys ==
    {ColName("Change", str(prev_year), str(last_year)),
     ColName("Pct_Change", str(prev_year), str(last_year)),
     ColName("Cum_Change", str(first_year), str(last_year)),
     ColName("Cum_Pct_Change", str(first_year), str(last_year))}

Derived(row) ==
    LET f == row.year[str(first_year)]
        p == row.year[str(prev_year)]
        l == row.year[str(last_year)]
    IN  [c \in DerivedKeys |->
            CASE c.col = "Change" -> Sub(l, p)
              [] c.col = "Pct_Change" -> Times100(Div(Sub(l, p), p))
              [] c.col = "Cum_Change" -> Sub(l, f)
              [] c.col = "Cum_Pct_Change" -> Times100(Div(Sub(l, f), f))]

RealKeys ==
    {ColName("RealIncome", str(y), <<>>) : y \in Range(successful_years)} \cup
    {ColName("Real_Change", str(prev_year), str(last_year)),
     ColName("Real_Pct_Change", str(prev_year), str(last_year)),
     ColName("Real_Cum_Change", str(first_year), str(last_year)),
     ColName("Real_Cum_Pct_Change", str(first_year), str(last_year))}

ComputeMetrics ==
    /\ pc = "metrics"
    /\ IF \/ Len(successful_years) < 2
          \/ ~({str(first_year), str(prev_year), str(last_year)}
                   \subseteq pivot.columns)
       THEN \* IndexError on successful_years[-2], or KeyError on a column
            /\ pc' = "uncaught"
            /\ UNCHANGED pivot
       ELSE /\ pivot' =
                 [pivot EXCEPT !.rows =
                     [j \in 1..Len(pivot.rows) |->
                         [pivot.rows[j] EXCEPT
                             !.derived = Derived(pivot.rows[j]),
                             !.real = [c \in RealKeys |-> None]]]]
            /\ pc' = "save"
    /\ UNCHANGED <<current_year, years, i, idx, records, successful_years,
                   requested, last, df, out, file, val, ret>>

-----------------------------------------------------------------------------
(* 6. Metadata and output, lines 143-164 *)

metadata ==
    [metadata |->
        [islandwide_aggregation |-> TRUE,
         data_years |-> [j \in 1..Len(successful_years) |->
                            str(successful_years[j])]]]

OutputArray_MetadataFirst(rows) == <<metadata>> \o rows

\* records = pivot.to_dict(orient="records"); records.append(metadata)
OutputArray(rows) == Append(rows, metadata)

FileName == [start |-> START_YEAR, last |-> str(last_year)]

Save ==
    /\ pc = "save"
    /\ out' = OutputArray(pivot.rows)
    /\ file' = Append(file, FileName)
    /\ pc' = "done"
    /\ UNCHANGED <<current_year, years, i, idx, records, successful_years,
                   requested, last, df, pivot, val, ret>>

-----------------------------------------------------------------------------
(* The script *)

\* everything but the date the script is started on
InitScript ==
    /\ years = <<>>
    /\ pc = "start"
    /\ i = 1
    /\ idx = <<>>
    /\ records = <<>>
    /\ successful_years = <<>>
    /\ requested = <<>>
    /\ last = "none"
    /\ df = <<>>
    /\ pivot = [columns |-> {}, rows |-> <<>>]
    /\ out = <<>>
    /\ file = <<>>
    /\ val = PyNone
    /\ ret = None

Init ==
    /\ current_year \in (START_YEAR + 1)..MaxCurrentYear
    /\ InitScript

\* a start one year later: a range of one more year
InitLong ==
    /\ current_year = MaxCurrentYear + 1
    /\ InitScript

Next ==
    \/ DetermineYears
    \/ FetchTransportError
    \/ FetchNon200
    \/ FetchJsonError
    \/ FetchUnpackError
    \/ FetchNoRows
    \/ FetchRows
    \/ ProcessRow
    \/ EndRows
    \/ CheckSuccessful
    \/ BuildDataframe
    \/ PivotStep
    \/ ComputeMetrics
    \/ Save

Spec == Init /\ [][Next]_vars

SpecLong == InitLong /\ [][Next]_vars

-----------------------------------------------------------------------------
(* safe_int on its own: the argument is any short string, None or a list *)

Chars == {"0", "1", "2", "N", "a", "-", "+", " ", "_"}

Strings == UNION {[1..n -> Chars] : n \in 0..MaxLen}

PyValues == {PyStr(s) : s \in Strings} \cup {PyNone, PyList}

InitSafeInt ==
    /\ val \in PyValues
    /\ ret = None
    /\ pc = "call"
    /\ current_year = START_YEAR
    /\ years = <<>>
    /\ i = 1
    /\ idx = <<>>
    /\ records = <<>>
    /\ successful_years = <<>>
    /\ requested = <<>>
    /\ last = "none"
    /\ df = <<>>
    /\ pivot = [columns |-> {}, rows |-> <<>>]
    /\ out = <<>>
    /\ file = <<>>

CallSafeInt ==
    /\ pc = "call"
    /\ ret' = safe_int(val)
    /\ pc' = "returned"
    /\ UNCHANGED <<current_year, years, i, idx, records, successful_years,
                   requested, last, df, pivot, out, file, val>>

NextSafeInt == CallSafeInt

SpecSafeInt == InitSafeInt /\ [][NextSafeInt]_vars

-----------------------------------------------------------------------------
(* Properties *)

AfterLoop == pc \in {"exit0", "build", "pivot", "metrics", "save", "done", "uncaught"}

AfterCheck == pc \in {"build", "pivot", "metrics", "save", "done", "uncaught"}

\* the year whose request was handled last
JustHandled == years[i - 1]

F == successful_years[1]
P == successful_years[Len(successful_years) - 1]
L == successful_years[Len(successful_years)]

NonNull(y) == {j \in 1..Len(records) :
                   records[j].year = y /\ records[j].Establishments # None}

RECURSIVE TotalOver(_)
TotalOver(J) ==
    IF J = {} THEN 0
    ELSE LET j == CHOOSE x \in J : TRUE
         IN  records[j].Establishments.n + TotalOver(J \ {j})

\* C1: every year of the range is requested exactly once, in increasing
\* order; a year whose request ends with a non-200 status, a transport
\* exception or a JSON parse error is left out of successful_years and of
\* records, and the loop goes on until every year has been requested.
C1_EachYearOnceFailuresSkipped ==
    /\ Len(requested) <= Len(years)
    /\ \A j \in 1..Len(requested) : requested[j] = years[j]
    /\ \A j \in 1..(Len(years) - 1) : years[j] < years[j + 1]
    /\ pc = "fetch" => Len(requested) = i - 1
    /\ pc \in {"first_row", "next_row"} => Len(requested) = i
    /\ AfterLoop => requested = years
    /\ Range(successful_years) \subseteq Range(requested)
    /\ \A r \in Range(records) : r.year \in Range(successful_years)
    /\ last \in {"non200", "transport", "json"} =>
          /\ JustHandled \notin Range(successful_years)
          /\ \A r \in Range(records) : r.year # JustHandled

\* the second request failed after a first one with data, and the loop is
\* about to request the third year
C1_Witness ==
    /\ pc = "fetch"
    /\ last \in {"non200", "transport", "json"}
    /\ i = 3
    /\ InLoop
    /\ successful_years = <<years[1]>>
    /\ records # <<>>

\* C2: with fewer than 2 successful years the run ends at the clean exit and
\* writes no file; whenever a file is written successful_years holds at
\* least 2 years.
C2_ExitWithoutOutputBelowTwoYears ==
    /\ file # <<>> => Len(successful_years) >= 2
    /\ out # <<>> => Len(successful_years) >= 2
    /\ AfterCheck => Len(successful_years) >= 2
    /\ pc = "exit0" => Len(successful_years) < 2 /\ file = <<>>
    /\ AfterLoop /\ Len(successful_years) < 2 => pc = "exit0"

C2_Witness ==
    /\ pc = "exit0"
    /\ Len(successful_years) = 1
    /\ records # <<>>
    /\ file = <<>>

\* C3: in every written output, data_years lists a year string exactly when
\* the wide rows carry a column keyed by that year string.
C3_DataYearsAreTheYearColumns ==
    pc = "done" =>
       LET md == out[Len(out)].metadata
       IN  \A j \in 1..(Len(out) - 1) :
               DOMAIN out[j].year = Range(md.data_years)

\* C4: every year column of the synthesized "Puerto Rico" row holds the sum
\* of the non-null establishment counts of that year's municipality records,
\* and no record of the territory-wide API row takes part in it.
C4_IslandRowIsSumOfMunicipalities ==
    /\ \A r \in Range(records) : r.Municipio # PuertoRico
    /\ pc \in {"save", "done"} =>
          /\ \E j \in 1..Len(pivot.rows) : pivot.rows[j].Municipio = PuertoRico
          /\ \A j \in 1..Len(pivot.rows) :
                pivot.rows[j].Municipio = PuertoRico =>
                   \A y \in Range(successful_years) :
                      str(y) \in pivot.columns =>
                         pivot.rows[j].year[str(y)] = PyInt(TotalOver(NonNull(y)))

\* two municipalities of one year add up in the island row
C4_Witness ==
    /\ pc = "done"
    /\ \E y \in Range(successful_years) :
          /\ Cardinality(NonNull(y)) = 2
          /\ \E j \in 1..Len(pivot.rows) :
                /\ pivot.rows[j].Municipio = PuertoRico
                /\ pivot.rows[j].year[str(y)] = PyInt(200)

\* C5: with F, P, L the first, second-to-last and last successful years
\* (F <= P < L), every wide row whose values for F, P and L are numbers has
\* Change_P_L = value[L] - value[P] and Cum_Change_F_L = value[L] - value[F],
\* and, where the denominator is not zero, Pct_Change_P_L * value[P] =
\* 100 * Change_P_L and Cum_Pct_Change_F_L * value[F] = 100 * Cum_Change_F_L;
\* 100 -> 150 gives 50 and 50.0, and 80 -> 150 gives 70 and 87.5.
C5_ChangeColumns ==
    /\ \A a, b \in 1..Len(successful_years) :
          a < b => successful_years[a] < successful_years[b]
    /\ Sub(PyInt(150), PyInt(100)) = PyInt(50)
    /\ Times100(Div(PyInt(50), PyInt(100))) = PyInt(50)
    /\ Sub(PyInt(150), PyInt(80)) = PyInt(70)
    /\ Times100(Div(PyInt(70), PyInt(80))) = Num(175, 2)
    /\ pc \in {"save", "done"} =>
          /\ F <= P /\ P < L
          /\ \A j \in 1..Len(pivot.rows) :
                LET row == pivot.rows[j]
                    f == row.year[str(F)]
                    p == row.year[str(P)]
                    l == row.year[str(L)]
                    change == ColName("Change", str(P), str(L))
                    pct == ColName("Pct_Change", str(P), str(L))
                    cum == ColName("Cum_Change", str(F), str(L))
                    cumpct == ColName("Cum_Pct_Change", str(F), str(L))
                IN  /\ DOMAIN row.derived = {change, pct, cum, cumpct}
                    /\ p.kind = "num" /\ l.kind = "num" =>
                          /\ row.derived[change] = PyInt(l.n - p.n)
                          /\ p.n # 0 =>
                                /\ row.derived[pct].kind = "num"
                                /\ row.derived[pct].n * p.n =
                                      100 * (l.n - p.n) * row.derived[pct].d
                    /\ f.kind = "num" /\ l.kind = "num" =>
                          /\ row.derived[cum] = PyInt(l.n - f.n)
                          /\ f.n # 0 =>
                                /\ row.derived[cumpct].kind = "num"
                                /\ row.derived[cumpct].n * f.n =
                                      100 * (l.n - f.n) * row.derived[cumpct].d

\* the island row halves from P to L
C5_Witness ==
    /\ pc = "done"
    /\ \E j \in 1..Len(pivot.rows) :
          /\ pivot.rows[j].year[str(P)] = PyInt(200)
          /\ pivot.rows[j].year[str(L)] = PyInt(100)
          /\ pivot.rows[j].derived[ColName("Change", str(P), str(L))]
                = PyInt(-100)
          /\ pivot.rows[j].derived[ColName("Pct_Change", str(P), str(L))]
                = PyInt(-50)

\* C6: a null operand or a zero denominator gives a null / not-a-number
\* derived value in every wide row, and nothing raises.
C6_NullOrZeroGivesNull ==
    pc \in {"save", "done"} =>
       \A j \in 1..Len(pivot.rows) :
          LET row == pivot.rows[j]
              f == row.year[str(F)]
              p == row.year[str(P)]
              l == row.year[str(L)]
          IN  /\ (p.kind # "num" \/ l.kind # "num" \/ p.n = 0) =>
                    row.derived[ColName("Pct_Change", str(P), str(L))].kind
                        \in {"nan", "None"}
              /\ (f.kind # "num" \/ l.kind # "num" \/ f.n = 0) =>
                    row.derived[ColName("Cum_Pct_Change", str(F), str(L))].kind
                        \in {"nan", "None"}

\* C7: the output array is one row per municipality of the output, one
\* "Puerto Rico" row and the metadata record as its last element; no name
\* occurs in two rows.
C7_OneRowPerMunicipalityThenMetadata ==
    pc = "done" =>
       LET munis == {records[j].Municipio :
                        j \in UNION {NonNull(y) : y \in Range(successful_years)}}
           n == Len(out)
       IN  /\ n = Cardinality(munis) + 1 + 1
           /\ "metadata" \in DOMAIN out[n]
           /\ \A j \in 1..(n - 1) :
                 "Municipio" \in DOMAIN out[j] /\ "metadata" \notin DOMAIN out[j]
           /\ {out[j].Municipio : j \in 1..(n - 1)} = munis \cup {PuertoRico}
           /\ \A a, b \in 1..(n - 1) :
                 out[a].Municipio = out[b].Municipio => a = b

\* two municipalities, the island row and the metadata record
C7_Witness ==
    /\ pc = "done"
    /\ Len(out) = 4
    /\ out[3].Municipio = PuertoRico
    /\ "metadata" \in DOMAIN out[4]

\* plain decimal strings and their values, stated without the parser
AllDigits(s) == s # <<>> /\ \A j \in 1..Len(s) : s[j] \in Digits

RECURSIVE Pow10(_)
Pow10(e) == IF e = 0 THEN 1 ELSE 10 * Pow10(e - 1)

RECURSIVE Positional(_, _)
Positional(s, j) ==
    IF j > Len(s) THEN 0
    ELSE DigitVal(s[j]) * Pow10(Len(s) - j) + Positional(s, j + 1)

\* C8: safe_int returns for every input; "N" and "0" give 0, a string of
\* decimal digits gives its integer ("1234" gives 1234), and an input that
\* is no integer literal ("abc", None) gives null.
C8_SafeIntTotal ==
    /\ safe_int(PyStr(<<"1", "2", "3", "4">>)) = PyInt(1234)
    /\ safe_int(PyStr(<<"a", "b", "c">>)) = None
    /\ pc = "returned" =>
          /\ ret.kind \in {"None", "num"}
          /\ val \in {PyStr(<<"N">>), PyStr(<<"0">>)} => ret = PyInt(0)
          /\ val.t = "str" /\ AllDigits(val.s) => ret = PyInt(Positional(val.s, 1))
          /\ val.t # "str" => ret = None
          /\ val.t = "str" /\ val.s # <<"N">>
                /\ (\E j \in 1..Len(val.s) : val.s[j] \in {"a", "N"})
                => ret = None
          /\ val = PyStr(<<>>) => ret = None

C8_Witness ==
    /\ pc = "returned"
    /\ val = PyStr(<<"N">>)
    /\ ret = PyInt(0)

\* C9: a year whose handling raised is skipped as a whole: it is not in
\* successful_years and no record of it is in records.
C9_RaisedYearLeavesNothing ==
    last = "raised" =>
       /\ JustHandled \notin Range(successful_years)
       /\ \A r \in Range(records) : r.year # JustHandled

\* C10: a run whose fetch loop ends with at least 2 successful years never
\* raises and ends with the one output file named with START_YEAR and the
\* last successful year.
C10_TwoYearsAlwaysReachTheOutput ==
    /\ pc # "uncaught"
    /\ pc = "done" => file = <<[start |-> START_YEAR, last |-> str(L)]>>

====
